---- MODULE Spec2Model ----
(***************************************************************************)
(* Model of the two command-line programs of galaxy_rerun_testing:         *)
(*   - build_workflow_artifacts.py, the Artifact Collector, and            *)
(*   - check_invocation.py, the Cache Checker.                             *)
(* File names are sequences of one-character strings, so that pathlib's    *)
(* stem/suffix, str.lower, str.replace and os.path.commonprefix are        *)
(* computed as the code computes them.                                     *)
(***************************************************************************)
EXTENDS Integers, Sequences, FiniteSets, TLC

VARIABLES
    \* ---- Artifact Collector (build_workflow_artifacts.py)
    src,        \* the source tree: directory path -> listing (sequence of entries)
    perm,       \* the source tree: directory path -> "rwx" | "r--" | "---"
    rootKind,   \* what --workflows-dir names: "dir", "file", "missing", or
                \* "noaccess" (below a directory that may not be searched)
    dry_run,    \* args.dry_run
    verbose,    \* args.verbose
    fs,         \* the output filesystem: [dirs: set of paths, files: <<path, name>> -> content]
    log,        \* the lines printed so far (message kinds)
    todo,       \* os.walk: directories still to yield, in order
    pc,         \* "start" | "walk" | "exit" | "idle"
    rc,         \* the process's exit status, -1 while running
    exc,        \* the call whose exception left main uncaught, NoCall when none
    \* ---- pick_matching_tests applied to one directory listing
    p_ga,       \* the .ga file name
    p_listing,  \* the directory listing, in iterdir order
    p_result,   \* the chosen tests file (an entry, or None)
    p_pc,       \* "call" | "done" | "idle"
    \* ---- Cache Checker (check_invocation.py)
    k_pc,       \* position in main / run_workflow_and_check_cache
    k_out,      \* the outputs of the external commands run so far
    k_cmds,     \* the external commands issued so far
    k_ids,      \* the invocation ids extracted so far
    k_api,      \* the API requests made so far
    k_jobs,     \* what the API answers: the rerun's jobs, each copied or not
    k_fetched,  \* the job details fetched so far
    k_result,   \* the dict run_workflow_and_check_cache returns
    k_printed,  \* the lines main printed on stdout
    k_exit      \* the exit status, -1 while running

cvars == <<src, perm, rootKind, dry_run, verbose, fs, log, todo, pc, rc, exc>>
pvars == <<p_ga, p_listing, p_result, p_pc>>
kvars == <<k_pc, k_out, k_cmds, k_ids, k_api, k_jobs, k_fetched, k_result, k_printed, k_exit>>
vars == <<cvars, pvars, kvars>>

(***************************************************************************)
(* Strings                                                                 *)
(***************************************************************************)
UpperChars == <<"A","B","C","D","E","F","G","H","I","J","K","L","M",
                "N","O","P","Q","R","S","T","U","V","W","X","Y","Z">>
LowerChars == <<"a","b","c","d","e","f","g","h","i","j","k","l","m",
                "n","o","p","q","r","s","t","u","v","w","x","y","z">>

\* str.lower on one character
LowerChar(c) ==
    IF \E i \in 1..Len(UpperChars) : UpperChars[i] = c
    THEN LowerChars[CHOOSE i \in 1..Len(UpperChars) : UpperChars[i] = c]
    ELSE c

\* str.lower
Lower(s) == [i \in 1..Len(s) |-> LowerChar(s[i])]

\* str.endswith
EndsWith(s, suf) ==
    /\ Len(suf) <= Len(s)
    /\ SubSeq(s, Len(s) - Len(suf) + 1, Len(s)) = suf

\* str.rfind("."): the last index of a dot, 0 when there is none (Python's -1)
RFindDot(s) ==
    IF \E i \in 1..Len(s) : s[i] = "."
    THEN CHOOSE i \in 1..Len(s) : s[i] = "." /\ \A j \in (i+1)..Len(s) : s[j] # "."
    ELSE 0

\* pathlib's PurePath.suffix: from the last dot, unless that dot leads or ends the name
Suffix(name) ==
    LET i == RFindDot(name)
    IN  IF 1 < i /\ i < Len(name) THEN SubSeq(name, i, Len(name)) ELSE <<>>

\* pathlib's PurePath.stem
Stem(name) ==
    LET i == RFindDot(name)
    IN  IF 1 < i /\ i < Len(name) THEN SubSeq(name, 1, i - 1) ELSE name

ExtGa   == <<".","g","a">>
ExtYml  == <<".","y","m","l">>
SufTest  == <<"-","t","e","s","t">>
SufTests == <<"-","t","e","s","t","s">>
TEST_SUFFIXES == <<SufTest \o ExtYml, SufTests \o ExtYml>>
README_MD == <<"R","E","A","D","M","E",".","m","d">>
TEST_DATA_U == <<"t","e","s","t","_","d","a","t","a">>
TEST_DATA_H == <<"t","e","s","t","-","d","a","t","a">>
TEST_DIR_NAMES == <<TEST_DATA_U, TEST_DATA_H>>

(***************************************************************************)
(* Directory listings: a sequence (iterdir order) of entries               *)
(*   [name, kind, doc (the YAML document of a .yml file)]                  *)
(* kind is "file" (a regular file, or a symbolic link to one), "dir" (a    *)
(* directory) or "link" (a symbolic link to a directory; src and perm hold *)
(* what the link leads to under the link's own path).  perm[d] is what the *)
(* process may do with directory d: "rwx" list and search it, "r--" list   *)
(* it but reach nothing below it, "---" not list it.                       *)
(***************************************************************************)
NoDoc == [root |-> "none", hasjob |-> FALSE, job |-> "None", items |-> <<>>]

File(name) == [name |-> name, kind |-> "file", doc |-> NoDoc]
Yml(name, doc) == [name |-> name, kind |-> "file", doc |-> doc]
Dir(name) == [name |-> name, kind |-> "dir", doc |-> NoDoc]
Link(name) == [name |-> name, kind |-> "link", doc |-> NoDoc]

\* Path.is_dir and os.path.isdir follow symbolic links
IsDirKind(e) == e.kind \in {"dir", "link"}

\* Optional[Path]: None is an entry no listing holds
None == [name |-> <<>>, kind |-> "none", doc |-> NoDoc]

\* find_ga_files without its suffix test
find_ga_files_AnyFile(listing) ==
    LET IsFile(e) == e.kind = "file"
    IN  SelectSeq(listing, IsFile)

find_ga_files(listing) ==
    LET IsGa(e) == e.kind = "file" /\ Suffix(e.name) = ExtGa
    IN  SelectSeq(listing, IsGa)

find_tests_files(listing) ==
    LET IsTests(e) ==
            /\ e.kind = "file"
            /\ Lower(Suffix(e.name)) = ExtYml
            /\ \E k \in 1..Len(TEST_SUFFIXES) : EndsWith(Lower(e.name), TEST_SUFFIXES[k])
    IN  SelectSeq(listing, IsTests)

(***************************************************************************)
(* similarity_score and pick_matching_tests                                *)
(***************************************************************************)
EXACT_BONUS == 10

\* similarity_score's inner norm: s.replace("-", "_").lower()
norm(s) == [i \in 1..Len(s) |-> IF s[i] = "-" THEN "_" ELSE LowerChar(s[i])]

\* len(os.path.commonprefix([a, b]))
CommonPrefixLen(a, b) ==
    LET m == IF Len(a) < Len(b) THEN Len(a) ELSE Len(b)
        Agree == {n \in 0..m : \A i \in 1..n : a[i] = b[i]}
    IN  CHOOSE n \in Agree : \A k \in Agree : k <= n

similarity_score(a, b) ==
    LET a_n == norm(a)
        b_n == norm(b)
    IN  (IF a_n = b_n THEN EXACT_BONUS ELSE 0) + CommonPrefixLen(a_n, b_n)

\* a max that keeps the last maximal element
FirstMaxIndex_Last(score) ==
    CHOOSE i \in DOMAIN score :
        /\ \A j \in DOMAIN score : score[j] <= score[i]
        /\ \A j \in DOMAIN score : j > i => score[j] < score[i]

\* max(tests_files, key=...): Python's max returns the first maximal element
FirstMaxIndex(score) ==
    CHOOSE i \in DOMAIN score :
        /\ \A j \in DOMAIN score : score[j] <= score[i]
        /\ \A j \in DOMAIN score : j < i => score[j] < score[i]

\* ga is a file name, tests_files a sequence of entries; the result is an entry or None
pick_matching_tests(ga, tests_files) ==
    IF tests_files = <<>> THEN None
    ELSE IF Len(tests_files) = 1 THEN tests_files[1]
    ELSE LET ga_stem == Stem(ga)
             score == [i \in 1..Len(tests_files) |->
                          similarity_score(ga_stem, Stem(tests_files[i].name))]
         IN  tests_files[FirstMaxIndex(score)]

(***************************************************************************)
(* YAML documents and read_tests_job_mapping                               *)
(*   a document: [root, hasjob, job, items]                                *)
(*     root "invalid": open or yaml.safe_load raises                       *)
(*     root "scalar":  neither a list nor a dict (None, a string, ...)     *)
(*     root "dict":    hasjob, job: whether it has the key and its value   *)
(*     root "list":    items, each [isdict, hasjob, job]                   *)
(*   a value under `job`: "None", "{}" (the empty dict), "m1", "m2" (two   *)
(*   non-empty mappings), "str" (a non-empty string)                       *)
(***************************************************************************)
JobVals == {"None", "{}", "m1", "m2", "str"}
IsDictVal(v) == v \in {"{}", "m1", "m2"}
Truthy(v) == v \in {"m1", "m2", "str"}

InvalidDoc == [root |-> "invalid", hasjob |-> FALSE, job |-> "None", items |-> <<>>]
ScalarDoc  == [root |-> "scalar", hasjob |-> FALSE, job |-> "None", items |-> <<>>]
DictDoc(hasjob, v) == [root |-> "dict", hasjob |-> hasjob, job |-> v, items |-> <<>>]
ListDoc(items) == [root |-> "list", hasjob |-> FALSE, job |-> "None", items |-> items]
Item(isdict, hasjob, v) == [isdict |-> isdict, hasjob |-> hasjob, job |-> v]

\* the for loop of lines 103-107 over items[i..], job_data so far being acc
RECURSIVE ScanItems(_, _, _)
ScanItems(items, i, acc) ==
    IF i > Len(items) THEN acc
    ELSE IF items[i].isdict /\ items[i].hasjob
         THEN IF Truthy(items[i].job) THEN items[i].job
              ELSE ScanItems(items, i + 1, items[i].job)
         ELSE ScanItems(items, i + 1, acc)

\* a loop that stops at the first element holding `job`, whatever its value
JobData_FirstElement(doc) ==
    IF doc.root = "list" /\ doc.items # <<>>
    THEN LET holds == {i \in 1..Len(doc.items) : doc.items[i].isdict /\ doc.items[i].hasjob}
         IN  IF holds = {} THEN "None"
             ELSE doc.items[CHOOSE i \in holds : \A j \in holds : i <= j].job
    ELSE IF doc.root = "dict" THEN (IF doc.hasjob THEN doc.job ELSE "None")
    ELSE "None"

\* the value bound to job_data at line 114
JobData(doc) ==
    IF doc.root = "list" /\ doc.items # <<>> THEN ScanItems(doc.items, 1, "None")
    ELSE IF doc.root = "dict" THEN (IF doc.hasjob THEN doc.job ELSE "None")
    ELSE "None"

\* Optional[dict]: the mapping, or "None"
read_tests_job_mapping(doc) ==
    IF doc.root = "invalid" THEN "None"
    ELSE LET job_data == JobData(doc)
         IN  IF ~IsDictVal(job_data) THEN "None" ELSE job_data

(***************************************************************************)
(* The output filesystem and the four writers.  A writer takes and returns *)
(* st = [dirs, files, log]: the directories and files under --output-dir   *)
(* (paths relative to it) and the lines printed.                           *)
(***************************************************************************)
EmptyFs == [dirs |-> {}, files |-> <<>>]

\* log(msg, level, v, args): printed when args.verbose >= v
\* (args=None, as read_tests_job_mapping and main's ERROR call it: always printed)
LogLine(st, msg, v) ==
    IF verbose >= v THEN [st EXCEPT !.log = Append(@, msg)] ELSE st

LogAlways(st, msg) == [st EXCEPT !.log = Append(@, msg)]

\* Path.mkdir(parents=True, exist_ok=True): the path and all its ancestors
Prefixes(path) == {SubSeq(path, 1, n) : n \in 0..Len(path)}

IsPrefix(p, q) == Len(p) <= Len(q) /\ SubSeq(q, 1, Len(p)) = p

\* Path.parent
Parent(path) == SubSeq(path, 1, Len(path) - 1)

\* the bytes of the source file `name` of source directory `dir`
SrcContent(dir, name) == [kind |-> "copy", origin |-> <<dir, name>>, value |-> "None"]
\* yaml.safe_dump(job_mapping)
YamlDump(job_mapping) == [kind |-> "yaml", origin |-> <<>>, value |-> job_mapping]
\* what a write that raises has left of `content`: a leading part of it, possibly nothing
Partial(content) == [kind |-> "partial", origin |-> content.origin, value |-> content.value]

PutFile(files, dir, name, content) == (<<dir, name>> :> content) @@ files

ensure_dir(st, path) ==
    IF dry_run THEN LogLine(st, "Would create directory", 1)
    ELSE [st EXCEPT !.dirs = @ \cup Prefixes(path)]

copy_file(st, dir, name, dst) ==
    IF dry_run THEN LogLine(st, "Would copy", 0)
    ELSE LogLine([st EXCEPT !.dirs = @ \cup Prefixes(dst),
                            !.files = PutFile(@, dst, name, SrcContent(dir, name))],
                 "Copied", 1)

\* the directories of the source subtree below src_dir, src_dir included
TreeDirs(src_dir) == {d \in DOMAIN src : IsPrefix(src_dir, d)}

\* the files (directory, name) of the source directories D
TreeFiles(D) ==
    UNION {{<<d, src[d][i].name>> : i \in {j \in 1..Len(src[d]) : src[d][j].kind = "file"}} :
           d \in D}

\* what shutil.copytree has written under dst_dir once it has created the
\* counterparts of the directories D and written the files of DOMAIN status,
\* each in full ("full"), in part ("partial") or not at all ("none")
CopyTreeResult(st, src_dir, dst_dir, D, status) ==
    LET Rel(d) == SubSeq(d, Len(src_dir) + 1, Len(d))
        done == {k \in DOMAIN status : status[k] # "none"}
        From(k) == <<src_dir \o SubSeq(k[1], Len(dst_dir) + 1, Len(k[1])), k[2]>>
        newfiles == [k \in {<<dst_dir \o Rel(c[1]), c[2]>> : c \in done} |->
                        IF status[From(k)] = "full"
                        THEN SrcContent(From(k)[1], k[2])
                        ELSE Partial(SrcContent(From(k)[1], k[2]))]
    IN  [st EXCEPT !.dirs = @ \cup UNION {Prefixes(dst_dir \o Rel(d)) : d \in D},
                   !.files = newfiles @@ @]

\* shutil.copytree(src_dir, dst_dir, dirs_exist_ok=True): every directory and
\* every file of the source subtree, at the same place under dst_dir
copy_tree(st, src_dir, dst_dir) ==
    IF dry_run THEN LogLine(st, "Would copy directory", 0)
    ELSE LET sub == TreeDirs(src_dir)
         IN  LogLine(CopyTreeResult(st, src_dir, dst_dir, sub,
                                    [k \in TreeFiles(sub) |-> "full"]),
                     "Copied directory", 1)

\* a write_job_yaml that does not look at --dry-run
write_job_yaml_NoDryRun(st, job_mapping, dir, name) ==
    LogLine([st EXCEPT !.dirs = @ \cup Prefixes(dir),
                       !.files = PutFile(@, dir, name, YamlDump(job_mapping))],
            "Wrote job YAML", 1)

write_job_yaml(st, job_mapping, dir, name) ==
    IF dry_run THEN LogLine(st, "Would write job YAML", 0)
    ELSE LogLine([st EXCEPT !.dirs = @ \cup Prefixes(dir),
                            !.files = PutFile(@, dir, name, YamlDump(job_mapping))],
                 "Wrote job YAML", 1)

(***************************************************************************)
(* process_directory.  The handler is straight-line code over calls that   *)
(* read the source directory (Path.exists, Path.is_dir, the two listings)  *)
(* and the four writers, so it is modelled as the sequence of calls it     *)
(* makes (process_directory) and their execution in order (Exec).  Only    *)
(* read_tests_job_mapping catches an exception.  When the n-th call raises *)
(* (an OSError of stat, scandir, mkdir, copy2 or open, a shutil.Error of   *)
(* copytree), the calls before it have taken effect, the call itself has   *)
(* written what it wrote before the error, and the exception leaves        *)
(* process_directory and main.                                             *)
(***************************************************************************)
Call(op, dir, name, value, msg, v) ==
    [op |-> op, dir |-> dir, name |-> name, value |-> value, msg |-> msg, v |-> v]

NoCall == Call("none", <<>>, <<>>, "None", "", 0)

\* the calls that read the source tree, by the line that makes them: readme.exists()
\* (177), test_data_src.exists() and .is_dir() (183), find_ga_files (187: iterdir and
\* is_file, 130), find_tests_files (188: iterdir and is_file, 136)
ReadOps == {"exists", "is_dir", "find_ga_files", "find_tests_files"}
WriteOps == {"ensure_dir", "copy_file", "copy_tree", "write_job_yaml"}

\* Path.exists follows symbolic links: true of an entry of any kind
HasEntry(listing, name) == \E i \in 1..Len(listing) : listing[i].name = name
HasDir(listing, name) ==
    \E i \in 1..Len(listing) : listing[i].name = name /\ IsDirKind(listing[i])
EntryKind(listing, name) ==
    IF HasEntry(listing, name)
    THEN listing[CHOOSE i \in 1..Len(listing) : listing[i].name = name].kind
    ELSE "none"

\* an except clause that swallows the error without logging it
ReadCalls_Silent(d, matched_tests) == <<>>

\* read_tests_job_mapping, lines 92-97: a failure to open or parse the tests file
\* is caught and logged (log without args: printed at every verbosity)
ReadCalls(d, matched_tests) ==
    IF matched_tests.doc.root = "invalid"
    THEN <<Call("warn", d, matched_tests.name, "None", "Failed to read tests YAML", 0)>>
    ELSE <<>>

\* lines 195-211 for one ga file: the calls generating its job YAML
JobCalls(d, ga, tests_files) ==
    LET picked == pick_matching_tests(ga.name, tests_files)
        matched_tests == IF picked = None /\ tests_files # <<>> THEN tests_files[1]
                         ELSE picked
    IN  IF matched_tests = None
        THEN <<Call("log", d, ga.name, "None", "No tests YAML found", 1)>>
        ELSE LET job_mapping == read_tests_job_mapping(matched_tests.doc)
                 warn == ReadCalls(d, matched_tests)
             IN  IF ~Truthy(job_mapping)
                 THEN warn \o <<Call("log", d, matched_tests.name, "None",
                                     "No 'job' mapping found", 1)>>
                 ELSE warn \o <<Call("write_job_yaml", d, Stem(ga.name) \o ExtYml,
                                     job_mapping, "", 0)>>

RECURSIVE JobCallsAll(_, _, _, _)
JobCallsAll(d, ga_files, i, tests_files) ==
    IF i > Len(ga_files) THEN <<>>
    ELSE JobCalls(d, ga_files[i], tests_files) \o JobCallsAll(d, ga_files, i + 1, tests_files)

\* the calls process_directory(src_dir, dst_dir) makes, in order; src_dir and
\* dst_dir are the same path d relative to their roots (main, lines 228-230)
process_directory(d) ==
    LET listing == src[d]
        readme == IF HasEntry(listing, README_MD)
                  THEN <<Call("copy_file", d, README_MD, "None", "", 0)>> ELSE <<>>
        TreeCall(n) == <<Call("is_dir", d, TEST_DIR_NAMES[n], "None", "", 0)>>
                       \o (IF HasDir(listing, TEST_DIR_NAMES[n])
                           THEN <<Call("copy_tree", d \o <<TEST_DIR_NAMES[n]>>, <<>>,
                                       "None", "", 0)>>
                           ELSE <<>>)
        ga_files == find_ga_files(listing)
        tests_files == find_tests_files(listing)
        copies == [i \in 1..Len(ga_files) |->
                      Call("copy_file", d, ga_files[i].name, "None", "", 0)]
    IN  <<Call("ensure_dir", d, <<>>, "None", "", 0),
          Call("exists", d, README_MD, "None", "", 0)>>
        \o readme \o TreeCall(1) \o TreeCall(2)
        \o <<Call("find_ga_files", d, <<>>, "None", "", 0),
             Call("find_tests_files", d, <<>>, "None", "", 0)>>
        \o copies \o JobCallsAll(d, ga_files, 1, tests_files)

\* the state a call leaves when it returns
Apply(st, c) ==
    CASE c.op = "ensure_dir" -> ensure_dir(st, c.dir)
      [] c.op = "copy_file" -> copy_file(st, c.dir, c.name, c.dir)
      [] c.op = "copy_tree" -> copy_tree(st, c.dir, c.dir)
      [] c.op = "write_job_yaml" -> write_job_yaml(st, c.value, c.dir, c.name)
      [] c.op = "log" -> LogLine(st, c.msg, c.v)
      [] c.op = "warn" -> LogAlways(st, c.msg)
      [] OTHER -> st

\* some ancestor of the output directory `path`, or the path itself, is a regular file
Blocked(st, path) ==
    \E k \in 1..Len(path) : <<SubSeq(path, 1, k - 1), path[k]>> \in DOMAIN st.files

\* whether the call can return: it cannot when the source tree makes it raise.
\*   a read of directory d: stat below d and its listing need d listable and searchable;
\*   mkdir: FileExistsError / NotADirectoryError when a regular file is in the way;
\*   copy2: IsADirectoryError when the source is a directory;
\*   copytree: shutil.Error or OSError with a directory it cannot list, or one it
\*     cannot search that holds anything (an empty one it lists and has copied);
\*   open(out_path, "w"): IsADirectoryError when out_path is a directory.
\* Under --dry-run the writers only log.
Completes(st, c) ==
    CASE c.op \in ReadOps -> perm[c.dir] = "rwx"
      [] c.op = "ensure_dir" -> dry_run \/ ~Blocked(st, c.dir)
      [] c.op = "copy_file" -> dry_run \/ EntryKind(src[c.dir], c.name) = "file"
      [] c.op = "copy_tree" ->
            dry_run \/ \A d \in TreeDirs(c.dir) :
                           perm[d] = "rwx" \/ (perm[d] = "r--" /\ src[d] = <<>>)
      [] c.op = "write_job_yaml" -> dry_run \/ (c.dir \o <<c.name>>) \notin st.dirs
      [] OTHER -> TRUE

\* the states shutil.copytree can leave when it raises: it has created the
\* counterparts of some directories D (a directory only after its parent, and only
\* when it could list it), copied some of their files in full or in part, and
\* collected the errors of the rest to raise shutil.Error at the end; D is empty
\* when the first scandir or makedirs raises
CopyTreeFailures(st, src_dir, dst_dir) ==
    LET sub == TreeDirs(src_dir)
        Reached(D) ==
            \A d \in D : /\ perm[d] # "---"
                         /\ d # src_dir => (Parent(d) \in D /\ perm[Parent(d)] = "rwx")
        Copyable(D) == TreeFiles({d \in D : perm[d] = "rwx"})
    IN  UNION { {CopyTreeResult(st, src_dir, dst_dir, D, status) :
                    status \in [Copyable(D) -> {"none", "partial", "full"}]} :
                D \in {E \in SUBSET sub : Reached(E)} }

\* the states the call can leave when it raises (none: the call cannot raise).
\* Any call on the filesystem can fail for a reason the source tree does not show
\* (an I/O error, a full disk, a permission changed meanwhile), so each can raise
\* in any run; under --dry-run the writers only log and only the reads can.
\*   a read changes nothing;
\*   mkdir: the ancestors of the directory exist since the walk is top-down, so a
\*     failing mkdir has made nothing;
\*   copy2: it raises before it opens the destination, while writing it, or in
\*     copystat after having written it;
\*   write_job_yaml: open raises, or the dump raises after open has made the file.
Failures(st, c) ==
    CASE c.op \in ReadOps -> {st}
      [] c.op = "ensure_dir" -> IF dry_run THEN {} ELSE {st}
      [] c.op = "copy_file" ->
            IF dry_run THEN {}
            ELSE IF EntryKind(src[c.dir], c.name) # "file" THEN {st}
            ELSE {st} \cup
                 {[st EXCEPT !.files = PutFile(@, c.dir, c.name, content)] :
                     content \in {SrcContent(c.dir, c.name),
                                  Partial(SrcContent(c.dir, c.name))}}
      [] c.op = "copy_tree" ->
            IF dry_run THEN {} ELSE CopyTreeFailures(st, c.dir, c.dir)
      [] c.op = "write_job_yaml" ->
            IF dry_run THEN {}
            ELSE IF (c.dir \o <<c.name>>) \in st.dirs THEN {st}
            ELSE {st, [st EXCEPT !.files = PutFile(@, c.dir, c.name,
                                                    Partial(YamlDump(c.value)))]}
      [] OTHER -> {}

\* the states the calls go through when each returns: the state before calls[i],
\* then those after calls[i], calls[i + 1], ...
RECURSIVE Exec(_, _, _)
Exec(st, calls, i) ==
    IF i > Len(calls) THEN <<st>>
    ELSE <<st>> \o Exec(Apply(st, calls[i]), calls, i + 1)

\* each of the first n calls returns; trace[k] is the state before calls[k]
AllComplete(trace, calls, n) ==
    \A k \in 1..n : Completes(trace[k], calls[k])

\* os.walk(workflows_dir), top-down, followlinks=False, onerror=None: the
\* subdirectories of d it goes on to yield, in listing order.  It does not descend
\* into a symbolic link, and it passes over a directory it cannot list in silence.
SubDirs(d) ==
    LET IsWalked(e) == e.kind = "dir" /\ perm[d \o <<e.name>>] # "---"
        ds == SelectSeq(src[d], IsWalked)
    IN  [i \in 1..Len(ds) |-> d \o <<ds[i].name>>]

(***************************************************************************)
(* main of build_workflow_artifacts.py                                     *)
(***************************************************************************)
State == [dirs |-> fs.dirs, files |-> fs.files, log |-> log]

SetState(st) ==
    /\ fs' = [dirs |-> st.dirs, files |-> st.files]
    /\ log' = st.log

EXIT_NO_SOURCE == 2
EXIT_OK == 0
\* the interpreter's exit status after an uncaught exception
EXIT_UNCAUGHT == 1

\* lines 215-224: the check of the source root.  workflows_dir.exists() raises
\* PermissionError when a directory above the root may not be searched; os.walk
\* yields nothing for a root it cannot list.
MainStart ==
    /\ pc = "start"
    /\ IF rootKind = "noaccess"
       THEN /\ rc' = EXIT_UNCAUGHT
            /\ exc' = Call("exists", <<>>, <<>>, "None", "", 0)
            /\ pc' = "exit"
            /\ todo' = <<>>
            /\ UNCHANGED <<fs, log>>
       ELSE IF rootKind # "dir"
       THEN /\ SetState(LogAlways(State, "ERROR: not a directory"))
            /\ rc' = EXIT_NO_SOURCE
            /\ pc' = "exit"
            /\ todo' = <<>>
            /\ exc' = exc
       ELSE /\ SetState(LogLine(State, "Replicating structure", 0))
            /\ todo' = IF perm[<<>>] # "---" THEN << <<>> >> ELSE <<>>
            /\ pc' = "walk"
            /\ rc' = rc
            /\ exc' = exc
    /\ UNCHANGED <<src, perm, rootKind, dry_run, verbose, pvars, kvars>>

\* lines 227-233: os.walk yields the next directory and process_directory returns
WalkDir ==
    /\ pc = "walk"
    /\ todo # <<>>
    /\ \E calls \in {process_directory(Head(todo))} :
       \E trace \in {Exec(State, calls, 1)} :
          /\ AllComplete(trace, calls, Len(calls))
          /\ SetState(trace[Len(calls) + 1])
          /\ todo' = SubDirs(Head(todo)) \o Tail(todo)
    /\ UNCHANGED <<src, perm, rootKind, dry_run, verbose, pc, rc, exc, pvars, kvars>>

\* lines 227-233: a call of process_directory raises; the exception is caught
\* nowhere, so the interpreter prints the traceback and exits with status 1
WalkDirRaise ==
    /\ pc = "walk"
    /\ todo # <<>>
    /\ \E calls \in {process_directory(Head(todo))} :
       \E trace \in {Exec(State, calls, 1)} :
       \E n \in 1..Len(calls) :
          /\ AllComplete(trace, calls, n - 1)
          /\ \E st \in Failures(trace[n], calls[n]) : SetState(st)
          /\ exc' = calls[n]
    /\ pc' = "exit"
    /\ rc' = EXIT_UNCAUGHT
    /\ UNCHANGED <<src, perm, rootKind, dry_run, verbose, todo, pvars, kvars>>

\* lines 235-236
MainDone ==
    /\ pc = "walk"
    /\ todo = <<>>
    /\ SetState(LogLine(State, "Done", 0))
    /\ rc' = EXIT_OK
    /\ pc' = "exit"
    /\ UNCHANGED <<src, perm, rootKind, dry_run, verbose, todo, exc, pvars, kvars>>

NextCollector == MainStart \/ WalkDir \/ WalkDirRaise \/ MainDone

(***************************************************************************)
(* Inputs of the Artifact Collector                                        *)
(***************************************************************************)
MaxVerbose == 1
MaxItems == 2

NameA   == <<"a">>
NameAB  == <<"a","b">>
WF  == <<"w","f">>
SUB == <<"s","u","b">>

\* what a directory holds besides its subdirectories
PlainContents ==
    { <<>>,
      <<File(README_MD)>>,
      <<File(NameA \o ExtGa)>>,
      <<File(README_MD), Yml(NameA \o SufTest \o ExtYml, DictDoc(TRUE, "m1"))>>,
      <<File(README_MD), File(NameA \o ExtGa),
        Yml(NameA \o SufTest \o ExtYml, DictDoc(TRUE, "m1"))>>,
      <<File(NameA \o ExtGa), File(NameAB \o ExtGa),
        Yml(NameA \o SufTests \o ExtYml, ListDoc(<<Item(TRUE, TRUE, "m2")>>)),
        Yml(NameAB \o SufTest \o ExtYml, InvalidDoc)>> }

\* what the root holds when it has subdirectories, and what wf/sub holds
UpperContents == { <<>>, <<File(README_MD)>> }
SubContents == { <<>>, <<File(README_MD)>>, <<File(NameA \o ExtGa)>> }

\* what a test_data or test-data directory holds
DataContents ==
    { <<>>,
      <<File(README_MD)>>,
      <<File(NameA \o ExtGa), Yml(NameA \o SufTest \o ExtYml, DictDoc(TRUE, "m1"))>> }

IsTestData(d) == d # <<>> /\ d[Len(d)] \in {TEST_DATA_U, TEST_DATA_H}

\* the trees: the root, below it wf, below wf at most two of sub, test_data, test-data
WfChildren == {c \in SUBSET {SUB, TEST_DATA_U, TEST_DATA_H} : Cardinality(c) <= 2}
TreeShapes ==
    { {<<>>} } \cup { {<<>>, <<WF>>} \cup {<<WF, n>> : n \in c} : c \in WfChildren }

ContentsOf(shape, d) ==
    IF shape = {<<>>} THEN PlainContents
    ELSE IF d = <<>> THEN UpperContents
    ELSE IF d = <<WF>> THEN PlainContents
    ELSE IF IsTestData(d) THEN DataContents
    ELSE SubContents

ChildOrder == <<WF, SUB, TEST_DATA_U, TEST_DATA_H>>

\* the listing of d: its files, then its subdirectories, those of `links` as
\* symbolic links
MkSrc(shape, links, content) ==
    [d \in shape |->
        LET IsChild(n) == (d \o <<n>>) \in shape
            names == SelectSeq(ChildOrder, IsChild)
        IN  content[d] \o [i \in 1..Len(names) |->
                              IF (d \o <<names[i]>>) \in links
                              THEN Link(names[i]) ELSE Dir(names[i])]]

\* a tree has at most one directory out of the ordinary: one the process cannot
\* search ("r--") or cannot list ("---"), or one below wf that is a symbolic link
Oddities(shape) ==
    {[at |-> <<>>, what |-> "none"]}
        \cup {[at |-> d, what |-> p] : d \in shape, p \in {"r--", "---"}}
        \cup {[at |-> d, what |-> "link"] : d \in {e \in shape : Len(e) = 2}}

MkPerm(shape, odd) ==
    [d \in shape |-> IF odd.at = d /\ odd.what \in {"r--", "---"} THEN odd.what ELSE "rwx"]

MkLinks(odd) == IF odd.what = "link" THEN {odd.at} ELSE {}

WalkSources ==
    UNION { {[src |-> MkSrc(shape, MkLinks(odd), c), perm |-> MkPerm(shape, odd)] :
                c \in {x \in [shape -> UNION {PlainContents, UpperContents, SubContents,
                                              DataContents}] :
                          \A d \in shape : x[d] \in ContentsOf(shape, d)},
                odd \in Oddities(shape)} :
            shape \in TreeShapes }

NoSource == [d \in {} |-> <<>>]

IdlePick == p_ga = <<>> /\ p_listing = <<>> /\ p_result = None /\ p_pc = "idle"

IdleChecker ==
    /\ k_pc = "idle" /\ k_out = <<>> /\ k_cmds = <<>> /\ k_ids = <<>> /\ k_api = <<>>
    /\ k_jobs = <<>> /\ k_fetched = <<>> /\ k_printed = <<>> /\ k_exit = -1
    /\ k_result = [invocation_id |-> <<>>, rerun_invocation_id |-> <<>>,
                   copied |-> -1, total |-> -1, success |-> FALSE]

InitRun ==
    /\ dry_run \in BOOLEAN
    /\ verbose \in 0..MaxVerbose
    /\ fs = EmptyFs
    /\ log = <<>>
    /\ todo = <<>>
    /\ pc = "start"
    /\ rc = -1
    /\ exc = NoCall
    /\ IdlePick
    /\ IdleChecker

\* any tree of WalkSources, or a source root that is missing, a plain file, or
\* out of reach
Init ==
    /\ \/ /\ rootKind = "dir"
          /\ \E t \in WalkSources : src = t.src /\ perm = t.perm
       \/ /\ rootKind \in {"missing", "file", "noaccess"}
          /\ src = NoSource /\ perm = NoSource
    /\ InitRun

Spec == Init /\ [][NextCollector]_vars

(***************************************************************************)
(* One directory holding one .ga file and one tests file, with any         *)
(* document in the tests file                                              *)
(***************************************************************************)
Items == {Item(TRUE, TRUE, v) : v \in JobVals}
            \cup {Item(TRUE, FALSE, "None"), Item(FALSE, FALSE, "None")}
ItemSeqs == UNION {[1..n -> Items] : n \in 0..MaxItems}
Docs == {InvalidDoc, ScalarDoc, DictDoc(FALSE, "None")}
            \cup {DictDoc(TRUE, v) : v \in JobVals}
            \cup {ListDoc(s) : s \in ItemSeqs}

JobGaNames == {NameA \o ExtGa, NameAB \o ExtGa}
JobTestsNames == {NameA \o SufTest \o ExtYml, NameA \o SufTests \o ExtYml,
                  NameAB \o SufTest \o ExtYml}

JobSources ==
    { [d \in {<<>>} |-> r \o <<File(g), Yml(n, doc)>>] :
        r \in {<<>>, <<File(README_MD)>>}, g \in JobGaNames, n \in JobTestsNames, doc \in Docs }

InitJob ==
    /\ rootKind = "dir"
    /\ src \in JobSources
    /\ perm = [d \in {<<>>} |-> "rwx"]
    /\ InitRun

SpecJob == InitJob /\ [][NextCollector]_vars

(***************************************************************************)
(* pick_matching_tests on one directory listing (process_directory, lines  *)
(* 187-200)                                                                *)
(***************************************************************************)
MaxListing == 3

PickGaNames ==
    {NameA \o ExtGa, <<"A">> \o ExtGa, NameAB \o ExtGa, <<"a","_">> \o ExtGa,
     NameA \o SufTest \o ExtGa}
PickFileNames ==
    {b \o s \o ExtYml : b \in {NameA, <<"A">>, NameAB}, s \in {SufTest, SufTests}}
        \cup {NameA \o ExtYml}

\* listings: sequences of distinct file names
PickListings ==
    {s \in UNION {[1..n -> PickFileNames] : n \in 0..MaxListing} :
        \A i, j \in 1..Len(s) : i # j => s[i] # s[j]}

IdleCollector ==
    /\ src = NoSource /\ perm = NoSource /\ rootKind = "missing"
    /\ dry_run = FALSE /\ verbose = 0
    /\ fs = EmptyFs /\ log = <<>> /\ todo = <<>> /\ pc = "idle" /\ rc = -1
    /\ exc = NoCall

InitPick ==
    /\ p_ga \in PickGaNames
    /\ \E s \in PickListings : p_listing = [i \in 1..Len(s) |-> File(s[i])]
    /\ p_result = None
    /\ p_pc = "call"
    /\ IdleCollector
    /\ IdleChecker

\* lines 188 and 196-200: the tests file process_directory reads for p_ga
PickCall ==
    /\ p_pc = "call"
    /\ LET tests_files == find_tests_files(p_listing)
           picked == pick_matching_tests(p_ga, tests_files)
       IN  p_result' = IF picked = None /\ tests_files # <<>> THEN tests_files[1] ELSE picked
    /\ p_pc' = "done"
    /\ UNCHANGED <<p_ga, p_listing, cvars, kvars>>

NextPick == PickCall

SpecPick == InitPick /\ [][NextPick]_vars

(***************************************************************************)
(* check_invocation.py.  The output of an external command is a sequence   *)
(* of tokens: INV stands for the literal text "Invocation <", GT for the   *)
(* character ">", and "x", "y" for any other text.                         *)
(***************************************************************************)
MaxOut == 4
MaxJobs == 2

INV == "Invocation <"
GT  == ">"
Tokens == {INV, GT, "x", "y"}
Outputs == UNION {[1..n -> Tokens] : n \in 0..MaxOut}

\* a missing invocation id (re.search never captures the empty string)
NoId == <<>>

\* the pattern r"Invocation <(.+)>": the capture runs to the last ">"
RegexSearch_Greedy(out) ==
    IF \E i \in 1..Len(out) : out[i] = INV /\ \E j \in (i + 2)..Len(out) : out[j] = GT
    THEN LET i == CHOOSE i \in 1..Len(out) :
                    /\ out[i] = INV /\ \E j \in (i + 2)..Len(out) : out[j] = GT
                    /\ \A h \in 1..(i - 1) :
                          ~(out[h] = INV /\ \E j \in (h + 2)..Len(out) : out[j] = GT)
             j == CHOOSE j \in (i + 2)..Len(out) :
                    out[j] = GT /\ \A h \in (j + 1)..Len(out) : out[h] # GT
         IN  SubSeq(out, i + 1, j - 1)
    ELSE NoId

\* whether r"Invocation <([^>]+)>" matches at position i of out
MatchesAt(out, i) ==
    /\ out[i] = INV
    /\ i + 1 <= Len(out) /\ out[i + 1] # GT
    /\ \E j \in (i + 2)..Len(out) : out[j] = GT

\* re.search(...).group(1): the leftmost match, its capture ending at the first ">"
RegexSearch(out) ==
    IF \E i \in 1..Len(out) : MatchesAt(out, i)
    THEN LET i == CHOOSE i \in 1..Len(out) :
                    MatchesAt(out, i) /\ \A h \in 1..(i - 1) : ~MatchesAt(out, h)
             j == CHOOSE j \in (i + 2)..Len(out) :
                    out[j] = GT /\ \A h \in (i + 2)..(j - 1) : out[h] # GT
         IN  SubSeq(out, i + 1, j - 1)
    ELSE NoId

\* how subprocess.run ends: the executable is missing (FileNotFoundError), it exits
\* non-zero (CalledProcessError, check=True), or it exits 0 with stdout + stderr = out
Outcomes ==
    {[end |-> e, out |-> <<>>] : e \in {"notfound", "nonzero"}}
        \cup {[end |-> "ok", out |-> o] : o \in Outputs}

run_planemo_and_get_invocation_id(outcome) ==
    IF outcome.end = "ok" THEN RegexSearch(outcome.out) ELSE NoId

Stdout(line, value) == [stream |-> "stdout", line |-> line, value |-> value]
Stderr(line) == [stream |-> "stderr", line |-> line, value |-> <<>>]

NoResult == [invocation_id |-> NoId, rerun_invocation_id |-> NoId,
             copied |-> -1, total |-> -1, success |-> FALSE]

\* the rerun's jobs as the API serves them: job i has id i, and
\* copied_from_job_id is "None" or the id of a job of the first run
JobLists == UNION {[1..n -> {"None", "j0"}] : n \in 0..MaxJobs}

\* count_copied_invocation_jobs, given the job details get_invocation_jobs returned
count_copied_invocation_jobs(jobs, invocation_id) ==
    [copied |-> Cardinality({i \in 1..Len(jobs) : jobs[i] # "None"}),
     total |-> Len(jobs),
     invocation_id |-> invocation_id]

\* a success test without the total > 0 conjunct
Success_AllCopied(count_data) == count_data.copied = count_data.total

\* line 164
Success(count_data) == count_data.copied = count_data.total /\ count_data.total > 0

InitChecker ==
    /\ k_pc = "start" /\ k_out = <<>> /\ k_cmds = <<>> /\ k_ids = <<>> /\ k_api = <<>>
    /\ k_jobs = <<>> /\ k_fetched = <<>> /\ k_result = NoResult /\ k_printed = <<>>
    /\ k_exit = -1
    /\ IdleCollector
    /\ IdlePick

\* main, line 186
KStart ==
    /\ k_pc = "start"
    /\ k_printed' = Append(k_printed, Stdout("--- Running initial workflow ---", <<>>))
    /\ k_pc' = "run"
    /\ UNCHANGED <<k_out, k_cmds, k_ids, k_api, k_jobs, k_fetched, k_result, k_exit,
                   cvars, pvars>>

\* main's except clauses, lines 194-199: the message on stderr and sys.exit(1)
Abort(line) ==
    /\ k_printed' = Append(k_printed, Stderr(line))
    /\ k_exit' = 1
    /\ k_pc' = "exit"

\* lines 136-146: the initial planemo run
KRunInitial ==
    /\ k_pc = "run"
    /\ \E outcome \in Outcomes :
          LET id == run_planemo_and_get_invocation_id(outcome)
          IN  /\ k_cmds' = Append(k_cmds, [verb |-> "run", use_cache |-> FALSE,
                                            invocation |-> NoId])
              /\ k_out' = Append(k_out, outcome)
              /\ k_ids' = Append(k_ids, id)
              /\ IF id = NoId
                 THEN Abort("Could not get invocation ID from the initial run.")
                 ELSE k_pc' = "rerun" /\ UNCHANGED <<k_printed, k_exit>>
    /\ UNCHANGED <<k_api, k_jobs, k_fetched, k_result, cvars, pvars>>

\* lines 149-159: the rerun with --use_cache --invocation <id>
KRunRerun ==
    /\ k_pc = "rerun"
    /\ \E outcome \in Outcomes :
          LET id == run_planemo_and_get_invocation_id(outcome)
          IN  /\ k_cmds' = Append(k_cmds, [verb |-> "rerun", use_cache |-> TRUE,
                                            invocation |-> k_ids[1]])
              /\ k_out' = Append(k_out, outcome)
              /\ k_ids' = Append(k_ids, id)
              /\ IF id = NoId
                 THEN Abort("Could not get invocation ID from the rerun.")
                 ELSE k_pc' = "list" /\ UNCHANGED <<k_printed, k_exit>>
    /\ UNCHANGED <<k_api, k_jobs, k_fetched, k_result, cvars, pvars>>

Request(endpoint, invocation_id, job, status) ==
    [endpoint |-> endpoint, invocation_id |-> invocation_id, job |-> job, status |-> status]

\* get_invocation_jobs, line 40: GET api/jobs?invocation_id=<rerun id>
KListJobs ==
    /\ k_pc = "list"
    /\ \E ok \in BOOLEAN :
          /\ k_api' = Append(k_api, Request("api/jobs", k_ids[2], 0, IF ok THEN 200 ELSE 500))
          /\ IF ok
             THEN /\ k_jobs' \in JobLists
                  /\ k_pc' = "fetch"
                  /\ UNCHANGED <<k_printed, k_exit>>
             ELSE /\ Abort("An API error occurred")
                  /\ UNCHANGED k_jobs
    /\ UNCHANGED <<k_out, k_cmds, k_ids, k_fetched, k_result, cvars, pvars>>

\* get_invocation_jobs, line 41: GET api/jobs/<job id> for the next job of the list
KFetchJob ==
    /\ k_pc = "fetch"
    /\ Len(k_fetched) < Len(k_jobs)
    /\ LET i == Len(k_fetched) + 1
       IN  \E ok \in BOOLEAN :
              /\ k_api' = Append(k_api, Request("api/jobs/{id}", NoId, i,
                                                 IF ok THEN 200 ELSE 500))
              /\ IF ok
                 THEN /\ k_fetched' = Append(k_fetched, k_jobs[i])
                      /\ UNCHANGED <<k_pc, k_printed, k_exit>>
                 ELSE /\ Abort("An API error occurred")
                      /\ UNCHANGED k_fetched
    /\ UNCHANGED <<k_out, k_cmds, k_ids, k_jobs, k_result, cvars, pvars>>

\* a main that exits non-zero when the rerun was not fully cached
ExitStatus_FromSuccess(result) == IF result.success THEN 0 ELSE 1

\* main returns after its report: the interpreter exits with status 0,
\* whatever result["success"] is
ExitStatus(result) == 0

\* lines 163-172 and 201-210: the counts, the result and main's report
KReport ==
    /\ k_pc = "fetch"
    /\ Len(k_fetched) = Len(k_jobs)
    /\ LET count_data == count_copied_invocation_jobs(k_fetched, k_ids[2])
           result == [invocation_id |-> k_ids[1],
                      rerun_invocation_id |-> k_ids[2],
                      copied |-> count_data.copied,
                      total |-> count_data.total,
                      success |-> Success(count_data)]
       IN  /\ k_result' = result
           /\ k_printed' = k_printed \o
                 << Stdout("Successfully extracted Invocation ID", result.invocation_id),
                    Stdout("--- Rerunning workflow from cache ---", <<>>),
                    Stdout("Successfully extracted Rerun Invocation ID",
                           result.rerun_invocation_id),
                    Stdout("--- Verifying cached jobs ---", <<>>),
                    Stdout("Copied jobs", <<result.copied, result.total>>),
                    Stdout(IF result.success THEN "Success" ELSE "Failure", <<>>) >>
           /\ k_exit' = ExitStatus(result)
    /\ k_pc' = "exit"
    /\ UNCHANGED <<k_out, k_cmds, k_ids, k_api, k_jobs, k_fetched, cvars, pvars>>

NextChecker == KStart \/ KRunInitial \/ KRunRerun \/ KListJobs \/ KFetchJob \/ KReport

SpecChecker == InitChecker /\ [][NextChecker]_vars

(***************************************************************************)
(* Properties of the Artifact Collector                                    *)
(***************************************************************************)
Finished == pc = "exit" /\ rc = EXIT_OK

\* the job file process_directory writes for ga file `ga` of directory d
JobFile(d, ga) == <<d, Stem(ga) \o ExtYml>>
HasFile(key) == key \in DOMAIN fs.files

\* d is a directory of the source tree: every name on its path is a directory
\* (not a symbolic link to one)
RealDir(d) ==
    \A k \in 1..Len(d) : EntryKind(src[SubSeq(d, 1, k - 1)], d[k]) = "dir"

\* os.walk yields d: d is a directory of the source tree and the process can
\* list it and every directory above it
Walked(d) ==
    /\ RealDir(d)
    /\ \A k \in 0..Len(d) : perm[SubSeq(d, 1, k)] # "---"

\* C1: after a run without --dry-run that finishes, every directory of the
\* source tree, at any depth and whatever it holds, exists at the same relative
\* path under the output root.
C1_Mirrored ==
    (Finished /\ ~dry_run /\ rootKind = "dir") =>
        \A d \in DOMAIN src : RealDir(d) => d \in fs.dirs

\* C2: with --dry-run no step changes the filesystem: neither the output tree
\* nor the source tree changes, at any verbosity, also in a run that an
\* exception ends.
C2_DryRunFrame == [][dry_run => (fs' = fs /\ src' = src /\ perm' = perm)]_vars

\* a finished dry run that went through every kind of step: a directory, a
\* file copy, a tree copy and a job file
C2_Witness ==
    /\ Finished /\ dry_run /\ verbose >= 1
    /\ \A m \in {"Would create directory", "Would copy", "Would copy directory",
                 "Would write job YAML"} : \E i \in 1..Len(log) : log[i] = m
    /\ fs = EmptyFs

\* the root holds exactly one .ga file and one tests file, named <stem>-test.yml
\* or <stem>-tests.yml
OneGaOneTests ==
    /\ rootKind = "dir" /\ <<>> \in DOMAIN src
    /\ Len(find_ga_files(src[<<>>])) = 1
    /\ Len(find_tests_files(src[<<>>])) = 1
    /\ LET g == find_ga_files(src[<<>>])[1].name
           n == find_tests_files(src[<<>>])[1].name
       IN  n \in {Stem(g) \o SufTest \o ExtYml, Stem(g) \o SufTests \o ExtYml}

TheGa == find_ga_files(src[<<>>])[1].name
TheDoc == find_tests_files(src[<<>>])[1].doc

\* the indices of the list elements that are dicts holding the key `job`
Holders(doc) == {i \in 1..Len(doc.items) : doc.items[i].isdict /\ doc.items[i].hasjob}
Least(S) == CHOOSE i \in S : \A j \in S : i <= j
Greatest(S) == CHOOSE i \in S : \A j \in S : j <= i

\* the value C3 names: under `job` of a dict document, under `job` of the first
\* holder of a list document
ClaimedValue(doc) ==
    IF doc.root = "dict" /\ doc.hasjob THEN doc.job
    ELSE IF doc.root = "list" /\ Holders(doc) # {} THEN doc.items[Least(Holders(doc))].job
    ELSE "None"

\* the value the code takes: for a list document, under `job` of the first holder
\* whose value is non-empty, and of the last holder when every value is empty
TakenValue(doc) ==
    IF doc.root = "dict" /\ doc.hasjob THEN doc.job
    ELSE IF doc.root = "list" /\ Holders(doc) # {}
         THEN LET full == {i \in Holders(doc) : Truthy(doc.items[i].job)}
              IN  IF full # {} THEN doc.items[Least(full)].job
                  ELSE doc.items[Greatest(Holders(doc))].job
    ELSE "None"

\* C3 as claimed: the job file holds exactly the value under `job` (of the
\* document, or of the first list element holding `job`), and is produced
\* whenever that value is a dict.
C3_Claimed ==
    (Finished /\ ~dry_run /\ OneGaOneTests) =>
        LET v == ClaimedValue(TheDoc)
            f == JobFile(<<>>, TheGa)
        IN  /\ IsDictVal(v) => HasFile(f)
            /\ HasFile(f) => fs.files[f] = YamlDump(v)

\* C3 as amended: for a list document the value is that of the first holder
\* whose value is non-empty (of the last holder when all are empty), and the job
\* file is produced exactly when the value is a non-empty dict, holding it.
C3_Amended ==
    (Finished /\ ~dry_run /\ OneGaOneTests) =>
        LET v == TakenValue(TheDoc)
            f == JobFile(<<>>, TheGa)
        IN  IF IsDictVal(v) /\ Truthy(v)
            THEN HasFile(f) /\ fs.files[f] = YamlDump(v)
            ELSE ~HasFile(f)

\* a list document whose first holder has an empty mapping and whose second has
\* m1: the job file holds m1
C3_Witness ==
    /\ Finished /\ ~dry_run /\ OneGaOneTests
    /\ TheDoc = ListDoc(<<Item(TRUE, TRUE, "{}"), Item(TRUE, TRUE, "m1")>>)
    /\ HasFile(JobFile(<<>>, TheGa))
    /\ fs.files[JobFile(<<>>, TheGa)] = YamlDump("m1")

\* C6 as claimed: the exit status is 2 when the source root is missing or not a
\* directory and 0 in every other case.
C6_Claimed ==
    pc = "exit" => rc = (IF rootKind \in {"missing", "file"} THEN EXIT_NO_SOURCE ELSE EXIT_OK)

\* the tests file process_directory reads for ga file g of directory d is unreadable
ReadsInvalid(d, g) ==
    LET tests == find_tests_files(src[d])
    IN  tests # <<>> /\ pick_matching_tests(g, tests).doc.root = "invalid"

\* C6 as amended: the exit status is 2 exactly when the source root is missing or
\* not a directory.  A tests YAML that cannot be opened or parsed is caught and
\* logged and the walk goes on; a directory os.walk cannot list is passed over in
\* silence.  Every other failing filesystem call is uncaught and ends the run with
\* status 1 in the directory it happened in (or at the check of the root): a
\* writer (mkdir, copy, copytree, the job file's write) without --dry-run, a read
\* (stat, listing) with or without it.  A run that meets none ends with status 0
\* after the whole walk.
C6_Amended ==
    pc = "exit" =>
        /\ rc = EXIT_NO_SOURCE <=> rootKind \in {"missing", "file"}
        /\ rc = EXIT_UNCAUGHT <=> exc # NoCall
        /\ rc \in {EXIT_OK, EXIT_NO_SOURCE, EXIT_UNCAUGHT}
        /\ rc = EXIT_UNCAUGHT =>
              /\ exc.op \in ReadOps \cup WriteOps
              /\ dry_run => exc.op \in ReadOps
              /\ \/ rootKind = "noaccess" /\ log = <<>> /\ fs = EmptyFs
                 \/ rootKind = "dir" /\ todo # <<>> /\ IsPrefix(Head(todo), exc.dir)
        /\ rc = EXIT_OK =>
              /\ rootKind = "dir" /\ todo = <<>>
              /\ \A d \in DOMAIN src : Walked(d) =>
                    /\ perm[d] = "rwx"
                    /\ ~dry_run => d \in fs.dirs
                    /\ \A i \in 1..Len(find_ga_files(src[d])) :
                          ReadsInvalid(d, find_ga_files(src[d])[i].name) =>
                              \E k \in 1..Len(log) : log[k] = "Failed to read tests YAML"

\* a finished run that met an unreadable tests YAML in wf, logged it, still wrote
\* the job file of the other .ga file of wf and went on to mirror wf/sub
C6_Witness ==
    /\ Finished /\ ~dry_run
    /\ <<WF, SUB>> \in fs.dirs
    /\ ReadsInvalid(<<WF>>, NameAB \o ExtGa)
    /\ \E k \in 1..Len(log) : log[k] = "Failed to read tests YAML"
    /\ HasFile(JobFile(<<WF>>, NameA \o ExtGa))

\* directory d holds no file whose name ends in .ga
NoGa(d) ==
    \A i \in 1..Len(src[d]) : ~(src[d][i].kind = "file" /\ EndsWith(src[d][i].name, ExtGa))

\* what write_job_yaml writes: a YAML dump, or what a failing dump left of it
IsJobContent(content) ==
    content.kind = "yaml" \/ (content.kind = "partial" /\ content.origin = <<>>)

\* the output directory of a source directory without .ga files holds no job file
NoJobFile ==
    \A d \in DOMAIN src : NoGa(d) =>
        \A k \in DOMAIN fs.files : k[1] = d => ~IsJobContent(fs.files[k])

\* the run ended with an exception raised while processing a directory without
\* .ga files
RaisedInNoGa ==
    pc = "exit" /\ rc = EXIT_UNCAUGHT /\ todo # <<>> /\ NoGa(Head(todo))

\* the calls process_directory makes whatever the .ga files are
CommonOps == ReadOps \cup {"ensure_dir", "copy_file", "copy_tree"}

\* C10 as claimed: a directory without .ga files gets no job file in its output
\* directory, and processing it raises no error, whatever it holds.
C10_Claimed == NoJobFile /\ ~RaisedInNoGa

\* C10 as amended: a directory without .ga files gets no job file in its output
\* directory, and processing it makes no call of the job generation (no tests
\* file is picked or read, nothing is written or logged for one); when
\* processing it ends with an exception, the exception is that of a failing
\* filesystem call of the other steps: mkdir, a stat or a listing of the
\* directory, the copy of README.md or of a test-data directory.
C10_Amended ==
    /\ NoJobFile
    /\ \A d \in DOMAIN src : NoGa(d) =>
          LET calls == process_directory(d)
          IN  \A i \in 1..Len(calls) :
                 /\ calls[i].op \in CommonOps
                 /\ calls[i].op = "copy_file" => calls[i].name = README_MD
    /\ RaisedInNoGa =>
          /\ exc.op \in CommonOps
          /\ exc.op = "copy_file" => exc.name = README_MD

\* a finished run over a wf that holds README.md, a tests file and test_data but
\* no .ga file: README.md and test_data are copied, no job file is written
C10_Witness ==
    /\ Finished /\ ~dry_run
    /\ <<WF>> \in DOMAIN src /\ NoGa(<<WF>>)
    /\ find_tests_files(src[<<WF>>]) # <<>>
    /\ HasDir(src[<<WF>>], TEST_DATA_U)
    /\ HasFile(<<<<WF>>, README_MD>>)
    /\ <<WF, TEST_DATA_U>> \in fs.dirs
    /\ \A k \in DOMAIN fs.files : k[1] = <<WF>> => fs.files[k].kind = "copy"

(***************************************************************************)
(* Properties of pick_matching_tests                                       *)
(***************************************************************************)
TestsOfListing == find_tests_files(p_listing)

\* the tests files named exactly <stem>-test.yml or <stem>-tests.yml for p_ga
ExactlyNamed ==
    {i \in 1..Len(TestsOfListing) :
        TestsOfListing[i].name \in {Stem(p_ga) \o SufTest \o ExtYml,
                                    Stem(p_ga) \o SufTests \o ExtYml}}

\* C4: among several tests files, one named exactly <stem>-test.yml or
\* <stem>-tests.yml is the one chosen, whatever the others are named and in
\* whatever order the listing returns them.
C4_ExactNameChosen ==
    (p_pc = "done" /\ Len(TestsOfListing) >= 2 /\ ExactlyNamed # {}) =>
        \E i \in ExactlyNamed : p_result = TestsOfListing[i]

\* the length of the longest common prefix of the normalized stems, stated
\* without os.path.commonprefix: n is the largest length at which they agree
SharedPrefix(a, b, n) ==
    /\ n <= Len(a) /\ n <= Len(b)
    /\ SubSeq(norm(a), 1, n) = SubSeq(norm(b), 1, n)
    /\ (n < Len(a) /\ n < Len(b)) => norm(a)[n + 1] # norm(b)[n + 1]

\* C5: with two or more tests files, none of whose normalized stem equals the
\* normalized .ga stem, the chosen file has the longest common prefix of
\* normalized stems with the .ga stem, and among the files reaching that
\* length it is the first of the list.
C5_LongestPrefixFirst ==
    (/\ p_pc = "done"
     /\ Len(TestsOfListing) >= 2
     /\ \A i \in 1..Len(TestsOfListing) :
            norm(Stem(TestsOfListing[i].name)) # norm(Stem(p_ga))) =>
        \E i \in 1..Len(TestsOfListing) : \E n \in 0..Len(p_ga) :
            /\ p_result = TestsOfListing[i]
            /\ SharedPrefix(Stem(p_ga), Stem(TestsOfListing[i].name), n)
            /\ \A j \in 1..Len(TestsOfListing) : \A m \in 0..Len(p_ga) :
                  SharedPrefix(Stem(p_ga), Stem(TestsOfListing[j].name), m) =>
                      /\ m <= n
                      /\ (j < i => m < n)

\* three tests files for a_.ga: the second and third share two normalized
\* characters with it (only one before normalization), the first shares one;
\* the second is chosen
C5_Witness ==
    /\ p_pc = "done"
    /\ p_ga = <<"a","_">> \o ExtGa
    /\ Len(TestsOfListing) = 3
    /\ TestsOfListing[1].name = NameAB \o SufTest \o ExtYml
    /\ TestsOfListing[2].name = <<"A">> \o SufTests \o ExtYml
    /\ TestsOfListing[3].name = NameA \o SufTest \o ExtYml
    /\ p_result = TestsOfListing[2]

(***************************************************************************)
(* Properties of the Cache Checker                                         *)
(***************************************************************************)
\* the jobs of the rerun that the API reports as copied
CopiedJobs == {i \in 1..Len(k_jobs) : k_jobs[i] # "None"}

\* C7: success is reported exactly when every job of the rerun is copied and
\* there is at least one job; the counts are those of the API's jobs, and
\* 0 <= copied <= total.
C7_Success ==
    (k_pc = "exit" /\ k_exit = 0) =>
        /\ k_result.total = Len(k_jobs)
        /\ k_result.copied = Cardinality(CopiedJobs)
        /\ 0 <= k_result.copied /\ k_result.copied <= k_result.total
        /\ k_result.success <=> (k_result.copied = k_result.total /\ k_result.total > 0)
        /\ Len(k_jobs) = 0 => ~k_result.success

\* a run over a rerun without jobs: copied = total = 0 and success is false
C7_Witness ==
    /\ k_pc = "exit" /\ k_exit = 0
    /\ k_result.total = 0 /\ k_result.copied = 0 /\ ~k_result.success

\* an error was raised: an id was not found (the command was missing, exited
\* non-zero or printed no "Invocation <ID>"), or the API answered other than 200
ErrorRaised ==
    \/ \E i \in 1..Len(k_ids) : k_ids[i] = NoId
    \/ \E i \in 1..Len(k_api) : k_api[i].status # 200

StdoutLines == {i \in 1..Len(k_printed) : k_printed[i].stream = "stdout"}

\* C8: the exit status is 1 exactly when an error was raised, and then stdout
\* holds neither identifiers nor counts nor a success line; every other run exits
\* 0, whatever its success flag.
C8_ExitStatus ==
    k_pc = "exit" =>
        /\ k_exit = 1 <=> ErrorRaised
        /\ k_exit = 0 <=> ~ErrorRaised
        /\ \A i \in 1..Len(k_out) : k_out[i].end # "ok" => k_exit = 1
        /\ k_exit = 1 =>
              /\ \A i \in StdoutLines : k_printed[i].line = "--- Running initial workflow ---"
              /\ k_result = NoResult
        /\ k_exit = 0 =>
              \E i \in StdoutLines : k_printed[i].line \in {"Success", "Failure"}

\* a run that exits 0 although its success flag is false
C8_Witness ==
    /\ k_pc = "exit" /\ k_exit = 0
    /\ ~k_result.success /\ k_result.total = 2 /\ k_result.copied = 1

\* id is the text between an "Invocation <" of out and the next ">"
CapturedFrom(id, out) ==
    /\ id # <<>>
    /\ \A h \in 1..Len(id) : id[h] # GT
    /\ \E i \in 1..Len(out) :
          /\ out[i] = INV
          /\ i + Len(id) + 1 <= Len(out)
          /\ SubSeq(out, i + 1, i + Len(id)) = id
          /\ out[i + Len(id) + 1] = GT

\* C9: the rerun is issued only after the initial run gave an identifier and
\* carries exactly it, the text captured from the initial output; the API is
\* queried only after the rerun gave a second identifier, and only for it;
\* without a first identifier there is no rerun, without both no API request.
C9_Order ==
    /\ Len(k_cmds) <= 2 /\ Len(k_ids) = Len(k_cmds) /\ Len(k_out) = Len(k_cmds)
    /\ Len(k_cmds) >= 1 => k_cmds[1].verb = "run"
    /\ Len(k_cmds) = 2 =>
          /\ k_cmds[2].verb = "rerun" /\ k_cmds[2].use_cache
          /\ k_ids[1] # NoId
          /\ k_cmds[2].invocation = k_ids[1]
          /\ k_out[1].end = "ok" /\ CapturedFrom(k_ids[1], k_out[1].out)
    /\ k_api # <<>> =>
          /\ Len(k_ids) = 2 /\ k_ids[1] # NoId /\ k_ids[2] # NoId
          /\ k_out[2].end = "ok" /\ CapturedFrom(k_ids[2], k_out[2].out)
          /\ k_api[1].endpoint = "api/jobs" /\ k_api[1].invocation_id = k_ids[2]
          /\ \A i \in 2..Len(k_api) :
                k_api[i].endpoint = "api/jobs/{id}" /\ k_api[i].job = i - 1
    /\ (Len(k_ids) >= 1 /\ k_ids[1] = NoId) => Len(k_cmds) = 1
    /\ (\E i \in 1..Len(k_ids) : k_ids[i] = NoId) => k_api = <<>>

\* a run whose initial output holds two ">" after "Invocation <": the id is cut
\* at the first, the rerun carries it, and the jobs of a different rerun id are
\* fetched
C9_Witness ==
    /\ Len(k_cmds) = 2 /\ Len(k_fetched) >= 1
    /\ k_out[1].out = <<INV, "x", GT, GT>>
    /\ k_cmds[2].invocation = <<"x">>
    /\ k_ids[2] = <<"y", "x">>
    /\ k_api[1].invocation_id = <<"y", "x">>

====
